---- MODULE Spec2Model ----
(***************************************************************************)
(* The station feed normalizers of the YouBike scripts.                    *)
(*                                                                         *)
(*   bike0920  src/0920/python/Taichung_u_bike0920.py    get_ubike_data    *)
(*   bike2     src/0920/Taichung_u_bike2.py              get_ubike_data    *)
(*   tw        src/0920/python/u_bike_Taichung.py        get_ubike_data    *)
(*   ez        src/0920/python/Taichung_u_bike_ez0920.py                   *)
(*                                          get_taichung_youbike_data      *)
(*   cli       src/0920/Taichung_u_bike.py  get_taichung_ubike_data        *)
(*                                                                         *)
(* One behaviour is one invocation of one fetch function against one       *)
(* upstream answer.  Init draws the script and the answer; the actions are *)
(* the consecutive blocks of the function body: the HTTP request, the      *)
(* unwrapping of the envelope into a frame, the validation of the columns, *)
(* the cleaning of the rows, and the except clauses.                       *)
(*                                                                         *)
(* Text is a sequence of symbols.  A symbol is one character, except that  *)
(* a field name ("lat", "retVal", ...) and the literal null are one symbol *)
(* each.  The quote character is the symbol DQ.                            *)
(***************************************************************************)
EXTENDS Integers, Sequences, FiniteSets, TLC

\* ------------------------------------------------------------------ bounds

\* The longest station list an upstream answer carries.
MaxRecs == 2

\* ------------------------------------------------------------------ values

DQ == "\""

Digits == {"0", "1", "2", "3", "4", "5", "6", "7", "8", "9"}

DigitVal(c) ==
    CASE c = "0" -> 0 [] c = "1" -> 1 [] c = "2" -> 2 [] c = "3" -> 3
      [] c = "4" -> 4 [] c = "5" -> 5 [] c = "6" -> 6 [] c = "7" -> 7
      [] c = "8" -> 8 [] c = "9" -> 9

\* A cell of a frame or a value of a JSON object: a string, a number, a
\* parsed timestamp, or null (JSON null, None, NaN and NaT alike).
Str(s) == [t |-> "str", s |-> s, n |-> 0]
Num(k) == [t |-> "num", s |-> <<>>, n |-> k]
Dt(s) == [t |-> "dt", s |-> s, n |-> 0]
Null == [t |-> "null", s |-> <<>>, n |-> 0]

IsNull(v) == v.t = "null"

AllDigits(s) == \A i \in 1..Len(s) : s[i] \in Digits

RECURSIVE DigitsToInt(_)
DigitsToInt(s) ==
    IF s = <<>> THEN 0
    ELSE 10 * DigitsToInt(SubSeq(s, 1, Len(s) - 1)) + DigitVal(s[Len(s)])

\* -------------------------------------------------------- station records

\* required_cols of the validation block.
RequiredCols == {"lat", "lng", "tot", "sbi", "bemp", "mday", "sna", "sarea", "ar"}

\* numeric_cols of the cleaning block.
NumericCols == {"lat", "lng", "tot", "sbi", "bemp"}

\* subset= of dropna.
DropnaSubset == {"lat", "lng", "sna"}

\* The order in which an upstream object lists its keys.
KeyOrder ==
    <<"sno", "sna", "lat", "lng", "tot", "sbi", "bemp", "mday", "sarea", "ar", "retVal">>

ValidMday == <<"2", "0", "2", "5", "0", "1", "0", "1", "1", "2", "0", "0", "0", "0">>

\* A station object as upstream sends it (the end-to-end example of the
\* spec, with short values).
Base ==
    [sna |-> Str(<<"A">>), lat |-> Str(<<"2", "4">>), lng |-> Str(<<"1", "2", "0">>),
     tot |-> Str(<<"9">>), sbi |-> Str(<<"4">>), bemp |-> Str(<<"5">>),
     mday |-> Str(ValidMday), sarea |-> Str(<<"N">>), ar |-> Str(<<"R">>)]

Without(r, k) == [x \in (DOMAIN r) \ {k} |-> r[x]]

With(r, k, v) == [x \in (DOMAIN r) \cup {k} |-> IF x = k THEN v ELSE r[x]]

EmptyRec == [x \in {} |-> Null]

\* The station objects an upstream answer is built from: the complete one
\* and its one-field variations.
Records ==
    { Base,
      With(Base, "sbi", Str(<<"0">>)),
      With(Base, "sbi", Str(<<"x">>)),
      With(Base, "sbi", Num(7)),
      With(Base, "lat", Str(<<"x">>)),
      With(Base, "sna", Null),
      With(Base, "ar", Str(<<>>)),
      With(Base, "mday", Str(<<"x">>)),
      With(Base, "retVal", Str(<<"x">>)),
      With(Base, "sno", Str(<<"1">>)),
      Without(Base, "ar"),
      EmptyRec }

RECURSIVE SeqsUpTo(_, _)
SeqsUpTo(S, n) ==
    IF n = 0 THEN {<<>>}
    ELSE LET shorter == SeqsUpTo(S, n - 1)
         IN  shorter \cup {Append(q, x) : q \in {p \in shorter : Len(p) = n - 1}, x \in S}

Feeds == SeqsUpTo(Records, MaxRecs)

\* ------------------------------------------------------------ JSON text

RECURSIVE IntToDigits(_)
IntToDigits(k) ==
    LET d == CHOOSE c \in Digits : DigitVal(c) = k % 10
    IN  IF k < 10 THEN <<d>> ELSE IntToDigits(k \div 10) \o <<d>>

EncValue(v) ==
    CASE v.t = "str" -> <<DQ>> \o v.s \o <<DQ>>
      [] v.t = "num" -> IntToDigits(v.n)
      [] OTHER -> <<"null">>

RECURSIVE EncMembers(_, _, _)
EncMembers(r, i, first) ==
    IF i > Len(KeyOrder) THEN <<>>
    ELSE IF KeyOrder[i] \notin DOMAIN r THEN EncMembers(r, i + 1, first)
    ELSE (IF first THEN <<>> ELSE <<",">>)
         \o <<DQ, KeyOrder[i], DQ, ":">> \o EncValue(r[KeyOrder[i]])
         \o EncMembers(r, i + 1, FALSE)

EncObject(r) == <<"{">> \o EncMembers(r, 1, TRUE) \o <<"}">>

RECURSIVE EncItems(_, _)
EncItems(L, i) ==
    IF i > Len(L) THEN <<>>
    ELSE (IF i = 1 THEN <<>> ELSE <<",">>) \o EncObject(L[i]) \o EncItems(L, i + 1)

\* The compact JSON text of a station list (what upstream puts in retVal).
JsonDumps(L) == <<"[">> \o EncItems(L, 1) \o <<"]">>

At(t, i) == IF i >= 1 /\ i <= Len(t) THEN t[i] ELSE "EOF"

\* A string token: from the quote at i to the next quote (the texts of the
\* model hold no backslash escapes).
ParseString(t, i) ==
    LET closing == {j \in (i + 1)..Len(t) : t[j] = DQ}
    IN  IF At(t, i) # DQ \/ closing = {} THEN [ok |-> FALSE, s |-> <<>>, next |-> 0]
        ELSE LET j == CHOOSE x \in closing : \A y \in closing : x <= y
             IN  [ok |-> TRUE, s |-> SubSeq(t, i + 1, j - 1), next |-> j + 1]

RECURSIVE NumberEnd(_, _)
NumberEnd(t, i) == IF At(t, i) \in Digits THEN NumberEnd(t, i + 1) ELSE i

\* A scalar value at i: a string, a number or null.
ParseScalar(t, i) ==
    IF At(t, i) = DQ
    THEN LET p == ParseString(t, i)
         IN  [ok |-> p.ok, v |-> Str(p.s), next |-> p.next]
    ELSE IF At(t, i) = "null" THEN [ok |-> TRUE, v |-> Null, next |-> i + 1]
    ELSE IF At(t, i) \in Digits
    THEN LET e == NumberEnd(t, i)
         IN  [ok |-> TRUE, v |-> Num(DigitsToInt(SubSeq(t, i, e - 1))), next |-> e]
    ELSE [ok |-> FALSE, v |-> Null, next |-> 0]

\* The members of an object from i on, added to acc; a key is a string
\* holding one field-name symbol, and a repeated key keeps the last value.
RECURSIVE ParseMembers(_, _, _)
ParseMembers(t, i, acc) ==
    LET k == ParseString(t, i)
    IN  IF ~k.ok \/ Len(k.s) # 1 \/ At(t, k.next) # ":"
        THEN [ok |-> FALSE, r |-> acc, next |-> 0]
        ELSE LET v == ParseScalar(t, k.next + 1)
                 r == With(acc, k.s[1], v.v)
             IN  IF ~v.ok THEN [ok |-> FALSE, r |-> acc, next |-> 0]
                 ELSE IF At(t, v.next) = "," THEN ParseMembers(t, v.next + 1, r)
                 ELSE IF At(t, v.next) = "}" THEN [ok |-> TRUE, r |-> r, next |-> v.next + 1]
                 ELSE [ok |-> FALSE, r |-> acc, next |-> 0]

ParseObject(t, i) ==
    IF At(t, i) # "{" THEN [ok |-> FALSE, r |-> EmptyRec, next |-> 0]
    ELSE IF At(t, i + 1) = "}" THEN [ok |-> TRUE, r |-> EmptyRec, next |-> i + 2]
    ELSE ParseMembers(t, i + 1, EmptyRec)

RECURSIVE ParseItems(_, _, _)
ParseItems(t, i, acc) ==
    LET o == ParseObject(t, i)
    IN  IF ~o.ok THEN [ok |-> FALSE, recs |-> <<>>]
        ELSE IF At(t, o.next) = "," THEN ParseItems(t, o.next + 1, Append(acc, o.r))
        ELSE IF At(t, o.next) = "]" /\ o.next = Len(t)
        THEN [ok |-> TRUE, recs |-> Append(acc, o.r)]
        ELSE [ok |-> FALSE, recs |-> <<>>]

\* json.loads on the text of a station list: the list, or JSONDecodeError
\* (ok = FALSE).  The texts of the model are lists of flat objects.
JsonLoads(t) ==
    IF At(t, 1) # "[" THEN [ok |-> FALSE, recs |-> <<>>]
    ELSE IF At(t, 2) = "]" /\ Len(t) = 2 THEN [ok |-> TRUE, recs |-> <<>>]
    ELSE ParseItems(t, 2, <<>>)

\* -------------------------------------------------------------- CSV text

NL == "\n"

\* Every quote character of s doubled (the two halves of s are doubled
\* independently).
RECURSIVE DoubleQuotes(_)
DoubleQuotes(s) ==
    IF Len(s) = 0 THEN <<>>
    ELSE IF Len(s) = 1 THEN (IF s[1] = DQ THEN <<DQ, DQ>> ELSE s)
    ELSE LET m == Len(s) \div 2
         IN  DoubleQuotes(SubSeq(s, 1, m)) \o DoubleQuotes(SubSeq(s, m + 1, Len(s)))

\* A CSV body of one column named retVal whose single cell is the quoted
\* text s, its quote characters doubled as CSV quoting requires.
CsvRetValBody(s) == <<"retVal", NL, DQ>> \o DoubleQuotes(s) \o <<DQ, NL>>

\* The number of consecutive quote characters of s that end at position i
\* and start no earlier than position from.
RECURSIVE QuoteRun(_, _, _)
QuoteRun(s, i, from) ==
    IF i >= from /\ s[i] = DQ THEN 1 + QuoteRun(s, i - 1, from) ELSE 0

\* The symbols of s[lo..hi] that a left-to-right pairing of adjacent quote
\* characters (counted from position from) keeps: every symbol that is not
\* a quote, and of each run of quotes the 1st, 3rd, 5th ...
RECURSIVE KeepOddQuotes(_, _, _, _)
KeepOddQuotes(s, lo, hi, from) ==
    IF lo > hi THEN <<>>
    ELSE IF lo = hi
    THEN (IF s[lo] # DQ \/ QuoteRun(s, lo, from) % 2 = 1 THEN <<s[lo]>> ELSE <<>>)
    ELSE LET m == (lo + hi) \div 2
         IN  KeepOddQuotes(s, lo, m, from) \o KeepOddQuotes(s, m + 1, hi, from)

\* str.replace('""', '"'): left to right, occurrences not overlapping, so a
\* run of k quote characters becomes one of k - (k div 2).
ReplaceDoubled(s) == KeepOddQuotes(s, 1, Len(s), 1)

\* The content of the quoted CSV field whose opening quote is at i - 1: a
\* doubled quote is one quote of the cell, and the first quote that is not
\* doubled closes the field (the field runs to the end of the text when
\* there is none).
ReadQuoted(t, i) ==
    LET closing == {j \in i..Len(t) :
                       t[j] = DQ /\ At(t, j + 1) # DQ /\ QuoteRun(t, j, i) % 2 = 1}
        e == IF closing = {} THEN Len(t) + 1
             ELSE CHOOSE x \in closing : \A y \in closing : x <= y
    IN  KeepOddQuotes(t, i, e - 1, i)

\* The position of the line break that ends the line starting at i (one
\* past the end of the text when there is none).
LineEnd(t, i) ==
    LET brk == {j \in i..Len(t) : t[j] = NL}
    IN  IF brk = {} THEN Len(t) + 1 ELSE CHOOSE x \in brk : \A y \in brk : x <= y

\* pd.read_csv(StringIO(text)) on a body of at most one column and one
\* row: no text at all raises EmptyDataError, a body of one line is a
\* header without rows, and the cell of the first row is unquoted; a cell
\* of digits is read as a number.
ReadCsv(t) ==
    LET e == LineEnd(t, 1)
        header == SubSeq(t, 1, e - 1)
        cell == IF At(t, e + 1) = DQ THEN Str(ReadQuoted(t, e + 2))
                ELSE LET c == SubSeq(t, e + 1, LineEnd(t, e + 1) - 1)
                     IN  IF c = <<>> THEN Null
                         ELSE IF AllDigits(c) THEN Num(DigitsToInt(c))
                         ELSE Str(c)
    IN  [raises |-> t = <<>>,
         hasRetVal |-> header = <<"retVal">>,
         nrows |-> IF e + 1 <= Len(t) THEN 1 ELSE 0,
         cell |-> cell]

\* ---------------------------------------------------------------- frames

\* A DataFrame: its column labels, its rows (each with the index label it
\* was given at construction) and whether the labels are integers.
Frame(cols, rows, intcols) == [cols |-> cols, rows |-> rows, intcols |-> intcols]

NoFrame == Frame({}, <<>>, FALSE)

\* pd.DataFrame(list of dicts): the columns are the union of the keys, a
\* key an object lacks is NaN in its row.
DataFrame(L) ==
    LET cols == UNION {DOMAIN L[i] : i \in 1..Len(L)}
    IN  Frame(cols,
              [i \in 1..Len(L) |->
                  [idx |-> i,
                   cells |-> [c \in cols |-> IF c \in DOMAIN L[i] THEN L[i][c] ELSE Null]]],
              FALSE)

\* df.empty: an axis of length 0.
IsEmpty(df) == Len(df.rows) = 0 \/ df.cols = {}

\* A cell that holds a dict or a list (a column built from nested JSON).
Obj == [t |-> "obj", s |-> <<>>, n |-> 0]

\* A frame of n rows whose cells are nested objects.
ObjFrame(cols, n) ==
    Frame(cols, [i \in 1..n |-> [idx |-> i, cells |-> [c \in cols |-> Obj]]], FALSE)

\* pd.DataFrame([1, 2, 3]): one column, labelled with the integer 0.
IntFrame ==
    Frame({"0"}, [i \in 1..3 |-> [idx |-> i, cells |-> [c \in {"0"} |-> Num(i)]]], TRUE)

\* pd.DataFrame({"1": {...}, "2": {...}}): one column per key of the outer
\* dict and one row per key of the inner dicts.
DictOfDictsFrame(L) ==
    LET ids == {IntToDigits(i)[1] : i \in 1..Len(L)}
        keys == UNION {DOMAIN L[i] : i \in 1..Len(L)}
        order == SelectSeq(KeyOrder, LAMBDA k : k \in keys)
    IN  Frame(ids,
              [j \in 1..Len(order) |->
                  [idx |-> j,
                   cells |-> [c \in ids |->
                       LET r == L[CHOOSE i \in 1..Len(L) : IntToDigits(i)[1] = c]
                       IN  IF order[j] \in DOMAIN r THEN r[order[j]] ELSE Null]]],
              FALSE)

\* ------------------------------------------------------- upstream answers

Scripts == {"bike0920", "bike2", "tw", "ez", "cli"}

\* The scripts that pass timeout= to requests.get.
HasTimeout(s) == s \in {"tw", "ez"}

\* The content-type header as its media type followed by its parameters.
JsonCType == <<"application/json", "charset=utf-8">>

CsvCType == <<"text/csv">>

CTypes == {JsonCType, CsvCType}

\* IsJsonCType with the header compared to the bare media type.
IsJsonCTypeExact(c) == c = <<"application/json">>

\* 'application/json' in content_type
IsJsonCType(c) == \E i \in 1..Len(c) : c[i] = "application/json"

\* The bodies that are JSON text, by what they decode to.
ListKinds == {"flat", "retval_str", "retval_list", "retval_dict", "records",
              "retval_and_records"}

JsonKinds == ListKinds \cup {"retval_garbled", "scalar", "intlist", "emptyobj", "null"}

\* The bodies that are not JSON text.
TextKinds == {"csv_retval", "csv_retval_num", "csv_plain", "html", "empty"}

Body(kind, recs) == [kind |-> kind, recs |-> recs]

\* A feed a CSV table can carry: every row has every column.
IsTable(L) == Len(L) > 0 /\ \A i \in 1..Len(L) : DOMAIN L[i] = RequiredCols

Bodies ==
    {Body(k, L) : k \in ListKinds \cup {"csv_retval"}, L \in Feeds}
    \cup {Body("csv_plain", L) : L \in {F \in Feeds : IsTable(F)}}
    \cup {Body(k, <<>>) : k \in (JsonKinds \ ListKinds) \cup (TextKinds \ {"csv_retval", "csv_plain"})}

Answer(net, status, ctype, body) ==
    [net |-> net, status |-> status, ctype |-> ctype, body |-> body]

\* What upstream does with one request: no connection, no answer at all, an
\* error status, or a 200 with a content type and a body.
Answers ==
    {Answer(n, 200, JsonCType, Body("empty", <<>>)) : n \in {"connection_error", "silent"}}
    \cup {Answer("ok", st, JsonCType, Body("empty", <<>>)) : st \in {404, 500}}
    \cup {Answer("ok", 200, c, b) : c \in CTypes, b \in Bodies}

\* The string upstream puts in retVal (JSON envelope or CSV cell).
RetValText(b) == IF b.kind = "retval_garbled" THEN <<"x">> ELSE JsonDumps(b.recs)

\* response.text of a body that is not JSON.
RawText(b) ==
    CASE b.kind = "csv_retval" -> CsvRetValBody(RetValText(b))
      [] b.kind = "csv_retval_num" -> <<"retVal", NL, "5", NL>>
      [] b.kind = "html" -> <<"<", "x", ">">>
      [] OTHER -> <<>>

\* The second list of the body that carries both envelope keys.
OtherRecords == <<Base>>

\* ----------------------------------------------------------------- state

VARIABLES
    script,     \* the fetch function invoked
    upstream,   \* what upstream does with its request
    pc,         \* the block of the function about to run
    df,         \* the local frame df
    exc,        \* the exception raised inside try, with what its message names
    diag,       \* what was shown or printed, in order
    result,     \* the value returned
    branch,     \* the decoding path and the envelope branch taken
    stations,   \* the list of station objects handed to pd.DataFrame
    now,        \* the clock of the cache, in seconds
    cache,      \* the entry st.cache_data holds for get_ubike_data
    fetches,    \* the HTTP requests issued by the current invocation
    markers,    \* the get_marker_color calls of the marker loop, in order
    call,       \* a call of a helper function: its name and arguments
    ret         \* what that call returned

vars == <<script, upstream, pc, df, exc, diag, result, branch, stations,
          now, cache, fetches, markers, call, ret>>

NoExc == [cls |-> "none", missing |-> {}, observed |-> {}]

Raised(cls) == [cls |-> cls, missing |-> {}, observed |-> {}]

\* One st.error / st.warning / st.info / st.success / print call.
Msg(level, msg) ==
    [level |-> level, msg |-> msg, missing |-> {}, observed |-> {}, text |-> <<>>]

MsgText(level, msg, text) == [Msg(level, msg) EXCEPT !.text = text]

MsgCols(level, msg, missing, observed) ==
    [Msg(level, msg) EXCEPT !.missing = missing, !.observed = observed]

NoBranch == [path |-> "none", key |-> "none"]

Branch(path, key) == [path |-> path, key |-> key]

NoStations == [got |-> FALSE, recs |-> <<>>]

Unset == [kind |-> "unset", df |-> NoFrame]

\* return pd.DataFrame()
EmptyResult == [kind |-> "frame", df |-> NoFrame]

\* return None
NoneResult == [kind |-> "none", df |-> NoFrame]

\* No entry in the cache.
NoCache == [has |-> FALSE, at |-> 0, value |-> Unset, shown |-> <<>>]

NoCall == [fn |-> "none", args |-> <<>>]

NoRet == [fn |-> "none", value |-> <<>>]

\* The locals of a fresh invocation of the fetch function.
FreshLocals ==
    /\ df = NoFrame
    /\ exc = NoExc
    /\ diag = <<>>
    /\ result = Unset
    /\ branch = NoBranch
    /\ stations = NoStations
    /\ fetches = 0
    /\ markers = <<>>

Init ==
    /\ script \in Scripts
    /\ upstream \in Answers
    /\ pc = "request"
    /\ FreshLocals
    /\ now = 0
    /\ cache = NoCache
    /\ call = NoCall
    /\ ret = NoRet

\* requests.get(...) and response.raise_for_status().  A request without
\* timeout= to an upstream that never answers does not return.
Request ==
    /\ pc = "request"
    /\ upstream.net = "silent" => HasTimeout(script)
    /\ LET cls == IF upstream.net = "connection_error" THEN "ConnectionError"
                  ELSE IF upstream.net = "silent" THEN "Timeout"
                  ELSE IF upstream.status >= 400 THEN "HTTPError"
                  ELSE "none"
       IN  /\ exc' = Raised(cls)
           /\ pc' = IF cls = "none" THEN "decode" ELSE "except"
           /\ diag' = IF script = "ez" /\ cls = "none"
                      THEN Append(diag, Msg("print", "request_ok")) ELSE diag
    /\ fetches' = fetches + 1
    /\ UNCHANGED <<script, upstream, df, result, branch, stations>>
    /\ UNCHANGED <<now, cache, markers, call, ret>>

\* What a block of a function body comes to: where control goes next
\* ("validate", "return" or "except"), the frame built, the messages
\* emitted, the exception raised and the branch taken.
Out(to, frame, msgs, e, br) ==
    [to |-> to, df |-> frame, msgs |-> msgs, exc |-> e, branch |-> br,
     stations |-> NoStations]

\* The same for a block that hands the list of station objects L to
\* pd.DataFrame and goes on to the validation.
OutList(L, msgs, br) ==
    [to |-> "validate", df |-> DataFrame(L), msgs |-> msgs, exc |-> NoExc, branch |-> br,
     stations |-> [got |-> TRUE, recs |-> L]]

Loaded == Msg("success", "loaded")

\* read_csv on a body that is a table of station rows: an empty cell is NaN.
CsvRows(L) ==
    [i \in 1..Len(L) |->
        [c \in DOMAIN L[i] |-> IF L[i][c] = Str(<<>>) THEN Null ELSE L[i][c]]]

\* csv_df of bike0920 for each body: a body of JSON text is one line, which
\* read_csv takes for a header without rows.
CsvRead(b) ==
    IF b.kind = "csv_plain"
    THEN [raises |-> FALSE, hasRetVal |-> FALSE, nrows |-> Len(b.recs), cell |-> Null]
    ELSE IF b.kind \in JsonKinds
    THEN [raises |-> FALSE, hasRetVal |-> FALSE, nrows |-> 0, cell |-> Null]
    ELSE ReadCsv(RawText(b))

\* bike0920, the JSON branch: response.json() and the retVal / records /
\* direct chain.
UnwrapJson0920(b) ==
    IF b.kind \notin JsonKinds
    THEN Out("except", NoFrame, <<>>, Raised("RequestsJSONDecodeError"), Branch("json", "none"))
    ELSE IF b.kind \in {"scalar", "null"}
    THEN Out("except", NoFrame, <<>>, Raised("TypeError"), Branch("json", "none"))
    ELSE IF b.kind \in {"retval_str", "retval_garbled"}
    THEN LET r == JsonLoads(RetValText(b))
         IN  IF r.ok
             THEN OutList(r.recs, <<Loaded>>, Branch("json", "retVal"))
             ELSE Out("return", NoFrame,
                      <<Msg("error", "retval_decode"),
                        MsgText("error", "retval_head", RetValText(b))>>,
                      NoExc, Branch("json", "retVal"))
    ELSE IF b.kind \in {"retval_list", "retval_and_records"}
    THEN OutList(b.recs, <<Loaded>>, Branch("json", "retVal"))
    ELSE IF b.kind = "retval_dict"
    THEN Out("return", NoFrame, <<Msg("error", "retval_format")>>, NoExc,
             Branch("json", "retVal"))
    ELSE IF b.kind = "records"
    THEN OutList(b.recs, <<>>, Branch("json", "records"))
    ELSE IF b.kind = "intlist"
    THEN Out("validate", IntFrame, <<>>, NoExc, Branch("json", "direct"))
    ELSE IF b.kind = "emptyobj"
    THEN Out("validate", NoFrame, <<>>, NoExc, Branch("json", "direct"))
    ELSE OutList(b.recs, <<>>, Branch("json", "direct"))

\* bike0920, the CSV branch: read_csv, then the retVal cell of the first
\* row with its doubled quotes replaced, or the table itself.
UnwrapCsv0920(b) ==
    LET c == CsvRead(b)
    IN  IF c.raises
        THEN Out("except", NoFrame, <<>>, Raised("EmptyDataError"), Branch("csv", "none"))
        ELSE IF c.nrows = 0
        THEN Out("return", NoFrame, <<Msg("warning", "csv_empty")>>, NoExc, Branch("csv", "none"))
        ELSE IF ~c.hasRetVal
        THEN OutList(CsvRows(b.recs), <<>>, Branch("csv", "direct"))
        ELSE IF c.cell.t # "str"
        THEN Out("return", NoFrame, <<Msg("error", "retval_not_str")>>, NoExc,
                 Branch("csv", "retVal"))
        ELSE LET cleaned == ReplaceDoubled(c.cell.s)
                 r == JsonLoads(cleaned)
             IN  IF r.ok
                 THEN OutList(r.recs, <<Loaded>>, Branch("csv", "retVal"))
                 ELSE Out("return", NoFrame,
                          <<Msg("error", "retval_decode"),
                            MsgText("error", "retval_head", c.cell.s),
                            MsgText("error", "cleaned_head", cleaned)>>,
                          NoExc, Branch("csv", "retVal"))

\* bike0920: the content-type test, the unwrapping and the df.empty test.
Unwrap0920(a) ==
    LET o == IF IsJsonCType(a.ctype) THEN UnwrapJson0920(a.body) ELSE UnwrapCsv0920(a.body)
    IN  IF o.to = "validate" /\ IsEmpty(o.df)
        THEN [o EXCEPT !.to = "return", !.df = NoFrame,
                       !.msgs = Append(o.msgs, Msg("warning", "parsed_empty"))]
        ELSE o

\* The effect of a block on the state.
Apply(o, empty) ==
    /\ pc' = o.to
    /\ df' = o.df
    /\ diag' = diag \o o.msgs
    /\ exc' = o.exc
    /\ result' = IF o.to = "return" THEN empty ELSE result
    /\ UNCHANGED <<script, upstream>>
    /\ UNCHANGED <<now, cache, fetches, markers, call, ret>>

\* The same for an unwrapping block, which also settles the branch and the
\* list of station objects.
ApplyUnwrap(o, empty) ==
    /\ Apply(o, empty)
    /\ branch' = o.branch
    /\ stations' = o.stations

Decode0920 ==
    /\ pc = "decode"
    /\ script = "bike0920"
    /\ ApplyUnwrap(Unwrap0920(upstream), EmptyResult)

\* ParseRetVal with the dict case lost.
ParseRetValStringsOnly(cell, rec) == EmptyRec

\* parse_ret_val of bike2 on one cell of the retVal column: a dict is
\* returned as it is; a string goes through ast.literal_eval, and the
\* retVal strings of the model are no Python literals, so {} comes back,
\* as it does for NaN.
ParseRetVal(cell, rec) == IF cell.t = "obj" THEN rec ELSE EmptyRec

\* bike2: response.json(), the emptiness test, temp_df and the retVal column.
UnwrapBike2(b) ==
    IF b.kind \notin JsonKinds
    THEN Out("except", NoFrame, <<>>, Raised("RequestsJSONDecodeError"), NoBranch)
    ELSE IF b.kind \in {"emptyobj", "null"} \/ (b.kind = "flat" /\ b.recs = <<>>)
    THEN Out("return", NoFrame, <<Msg("warning", "api_empty")>>, NoExc, NoBranch)
    ELSE IF b.kind \in {"scalar", "retval_str", "retval_garbled"}
            \/ (b.kind = "retval_and_records" /\ Len(b.recs) # Len(OtherRecords))
    THEN Out("except", NoFrame, <<>>, Raised("ValueError"), NoBranch)
    ELSE IF b.kind = "intlist"
    THEN Out("validate", IntFrame, <<>>, NoExc, Branch("json", "direct"))
    ELSE IF b.kind = "records"
    THEN Out("validate", ObjFrame({"records"}, Len(b.recs)), <<>>, NoExc,
             Branch("json", "direct"))
    ELSE IF b.kind \in {"retval_list", "retval_dict", "retval_and_records"}
    THEN OutList([i \in 1..Len(b.recs) |-> ParseRetVal(Obj, b.recs[i])],
                 <<>>, Branch("json", "retVal"))
    ELSE LET temp == DataFrame(b.recs)
         IN  IF "retVal" \in temp.cols
             THEN OutList([i \in 1..Len(b.recs) |->
                              ParseRetVal(temp.rows[i].cells["retVal"], b.recs[i])],
                          <<>>, Branch("json", "retVal"))
             ELSE OutList(b.recs, <<>>, Branch("json", "direct"))

DecodeBike2 ==
    /\ pc = "decode"
    /\ script = "bike2"
    /\ ApplyUnwrap(UnwrapBike2(upstream.body), EmptyResult)

\* tw: response.json(), data.get('retVal'), the emptiness test and
\* pd.DataFrame(station_data).
UnwrapTw(b) ==
    IF b.kind \notin JsonKinds
    THEN Out("except", NoFrame, <<>>, Raised("RequestsJSONDecodeError"), NoBranch)
    ELSE IF b.kind \in {"flat", "intlist", "scalar", "null"}
    THEN Out("except", NoFrame, <<>>, Raised("AttributeError"), NoBranch)
    ELSE IF b.kind \in {"emptyobj", "records"}
            \/ (b.kind \in {"retval_list", "retval_dict", "retval_and_records"}
                /\ b.recs = <<>>)
    THEN Out("return", NoFrame, <<Msg("warning", "api_empty")>>, NoExc, NoBranch)
    ELSE IF b.kind \in {"retval_str", "retval_garbled"}
    THEN Out("except", NoFrame, <<>>, Raised("ValueError"), Branch("json", "retVal"))
    ELSE IF b.kind = "retval_dict"
    THEN Out("validate", DictOfDictsFrame(b.recs), <<Loaded>>, NoExc, Branch("json", "retVal"))
    ELSE OutList(b.recs, <<Loaded>>, Branch("json", "retVal"))

DecodeTw ==
    /\ pc = "decode"
    /\ script = "tw"
    /\ ApplyUnwrap(UnwrapTw(upstream.body), EmptyResult)

\* ez and cli: response.json() and pd.DataFrame(data), returned as built.
FrameOfJson(b) ==
    CASE b.kind = "flat" -> DataFrame(b.recs)
      [] b.kind = "intlist" -> IntFrame
      [] b.kind \in {"retval_list", "retval_dict"} -> ObjFrame({"retVal"}, Len(b.recs))
      [] b.kind = "records" -> ObjFrame({"records"}, Len(b.recs))
      [] b.kind = "retval_and_records" -> ObjFrame({"retVal", "records"}, Len(b.recs))
      [] OTHER -> NoFrame

UnwrapCli(s, b) ==
    IF b.kind \notin JsonKinds
    THEN Out("except", NoFrame, <<>>, Raised("RequestsJSONDecodeError"), NoBranch)
    ELSE IF b.kind \in {"scalar", "retval_str", "retval_garbled"}
            \/ (b.kind = "retval_and_records" /\ Len(b.recs) # Len(OtherRecords))
    THEN Out("except", NoFrame,
             IF s = "cli" THEN <<Msg("print", "fetched")>> ELSE <<>>,
             Raised("ValueError"), NoBranch)
    ELSE Out("return", FrameOfJson(b),
             <<Msg("print", IF s = "cli" THEN "fetched" ELSE "loaded")>>,
             NoExc, Branch("json", "direct"))

DecodeCli ==
    /\ pc = "decode"
    /\ script \in {"ez", "cli"}
    /\ LET o == UnwrapCli(script, upstream.body)
       IN  ApplyUnwrap(o, [kind |-> "frame", df |-> o.df])

\* --------------------------------------------------- validation, cleaning

\* CheckCols with the test weakened to "some required column is there".
CheckColsAnyPresent(s, f) ==
    IF RequiredCols \cap f.cols # {} THEN Out("clean", f, <<>>, NoExc, NoBranch)
    ELSE Out("return", f,
             <<MsgCols("error", "missing_cols", RequiredCols \ f.cols, {}),
               MsgCols("info", "actual_cols", {}, f.cols)>>,
             NoExc, NoBranch)

\* bike0920 and tw: the required columns; what is missing and what is there
\* are shown, and joining integer column labels raises TypeError after the
\* first message is out.
CheckCols(s, f) ==
    LET missing == RequiredCols \ f.cols
        shown == <<MsgCols("error", "missing_cols", missing, {})>>
    IN  IF RequiredCols \subseteq f.cols THEN Out("clean", f, <<>>, NoExc, NoBranch)
        ELSE IF f.intcols THEN Out("except", f, shown, Raised("TypeError"), NoBranch)
        ELSE Out("return", f,
                 shown \o <<MsgCols("info", "actual_cols", {}, f.cols)>>
                       \o (IF s = "bike0920"
                           THEN <<Msg("info", "row_count"), Msg("info", "first_row")>>
                           ELSE <<>>),
                 NoExc, NoBranch)

Validate ==
    /\ pc = "validate"
    /\ script \in {"bike0920", "tw"}
    /\ Apply(CheckCols(script, df), EmptyResult)
    /\ UNCHANGED <<branch, stations>>

\* bike2: the message of the ValueError is built from both joins before it
\* is raised.
CheckColsBike2(f) ==
    IF RequiredCols \subseteq f.cols THEN Out("clean", f, <<>>, NoExc, NoBranch)
    ELSE IF f.intcols THEN Out("except", f, <<>>, Raised("TypeError"), NoBranch)
    ELSE Out("except", f, <<>>,
             [cls |-> "ValueError", missing |-> RequiredCols \ f.cols, observed |-> f.cols],
             NoBranch)

ValidateBike2 ==
    /\ pc = "validate"
    /\ script = "bike2"
    /\ Apply(CheckColsBike2(df), EmptyResult)
    /\ UNCHANGED <<branch, stations>>

\* ToNumeric with a failed parse filled in as 0 instead of NaN.
ToNumericZero(v) ==
    IF v.t = "num" THEN v
    ELSE IF v.t = "str" /\ v.s # <<>> /\ AllDigits(v.s) THEN Num(DigitsToInt(v.s))
    ELSE Num(0)

\* pd.to_numeric(errors='coerce') on one cell: a number stays, a string of
\* digits is its value, anything else is NaN.
ToNumeric(v) ==
    IF v.t = "num" THEN v
    ELSE IF v.t = "str" /\ v.s # <<>> /\ AllDigits(v.s) THEN Num(DigitsToInt(v.s))
    ELSE Null

TwoDigits(s, i) == 10 * DigitVal(s[i]) + DigitVal(s[i + 1])

\* pd.to_datetime(format='%Y%m%d%H%M%S', errors='coerce') on one cell: the
\* timestamp of a 14-digit string with fields in range, NaT otherwise.
ToDatetime(v) ==
    IF /\ v.t = "str"
       /\ Len(v.s) = 14
       /\ AllDigits(v.s)
       /\ TwoDigits(v.s, 5) \in 1..12
       /\ TwoDigits(v.s, 7) \in 1..31
       /\ TwoDigits(v.s, 9) \in 0..23
       /\ TwoDigits(v.s, 11) \in 0..59
       /\ TwoDigits(v.s, 13) \in 0..59
    THEN Dt(v.s)
    ELSE Null

\* The loop over numeric_cols.
CoerceRow(row) ==
    [row EXCEPT !.cells = [c \in DOMAIN row.cells |->
                              IF c \in NumericCols THEN ToNumeric(row.cells[c])
                              ELSE row.cells[c]]]

\* KeepRow with sna left out of subset=.
KeepRowGeometryOnly(row) == \A c \in {"lat", "lng"} : ~IsNull(row.cells[c])

\* df.dropna(subset=['lat', 'lng', 'sna']): the rows that stay.
KeepRow(row) == \A c \in DropnaSubset : ~IsNull(row.cells[c])

\* The conversion of the mday column.
ParseMday(row) == [row EXCEPT !.cells["mday"] = ToDatetime(row.cells["mday"])]

\* CleanFrame with dropna() called without subset=: a row with any null
\* cell goes.
CleanFrameDropAnyNull(f) ==
    LET coerced == [i \in 1..Len(f.rows) |-> CoerceRow(f.rows[i])]
        kept == SelectSeq(coerced, LAMBDA row : \A c \in f.cols : ~IsNull(row.cells[c]))
    IN  Frame(f.cols, [i \in 1..Len(kept) |-> ParseMday(kept[i])], f.intcols)

\* The cleaning block, the same in bike0920, bike2 and tw.
CleanFrame(f) ==
    LET coerced == [i \in 1..Len(f.rows) |-> CoerceRow(f.rows[i])]
        kept == SelectSeq(coerced, KeepRow)
    IN  Frame(f.cols, [i \in 1..Len(kept) |-> ParseMday(kept[i])], f.intcols)

Clean ==
    /\ pc = "clean"
    /\ df' = CleanFrame(df)
    /\ result' = [kind |-> "frame", df |-> df']
    /\ pc' = "return"
    /\ UNCHANGED <<script, upstream, exc, diag, branch, stations>>
    /\ UNCHANGED <<now, cache, fetches, markers, call, ret>>

\* ---------------------------------------------------------- except clauses

\* The classes an exception is an instance of.  requests' JSONDecodeError
\* derives from InvalidJSONError, a RequestException, and from
\* json.JSONDecodeError, a ValueError; pandas' EmptyDataError is a ValueError.
Ancestors(cls) ==
    CASE cls \in {"ConnectionError", "Timeout", "HTTPError"} ->
            {cls, "RequestException", "Exception"}
      [] cls = "RequestsJSONDecodeError" ->
            {cls, "InvalidJSONError", "RequestException", "JSONDecodeError",
             "ValueError", "Exception"}
      [] cls = "EmptyDataError" -> {cls, "ValueError", "Exception"}
      [] OTHER -> {cls, "Exception"}

Clause(catches, handler) == [catches |-> catches, handler |-> handler]

\* The except clauses of each function, in source order.
Clauses(s) ==
    CASE s = "bike0920" ->
            <<Clause({"RequestException"}, "request_failed"),
              Clause({"Exception"}, "processing_failed")>>
      [] s = "bike2" ->
            <<Clause({"RequestException"}, "request_failed"),
              Clause({"ValueError", "KeyError"}, "parse_failed")>>
      [] s = "tw" ->
            <<Clause({"RequestException"}, "request_failed"),
              Clause({"RequestsJSONDecodeError"}, "json_invalid"),
              Clause({"Exception"}, "processing_failed")>>
      [] s = "ez" ->
            <<Clause({"RequestException"}, "request_failed"),
              Clause({"RequestsJSONDecodeError"}, "json_invalid"),
              Clause({"Exception"}, "unknown_error")>>
      [] s = "cli" ->
            <<Clause({"RequestException"}, "request_failed"),
              Clause({"ValueError"}, "parse_failed")>>

\* The clauses that match the exception: the first of them runs.
Matching(s, e) ==
    SelectSeq(Clauses(s), LAMBDA c : c.catches \cap Ancestors(e.cls) # {})

\* What a handler shows: its message with what the exception names, and for
\* the JSON handlers of tw and ez the head of response.text.
HandlerMsgs(s, h, e) ==
    <<MsgCols(IF s \in {"ez", "cli"} THEN "print" ELSE "error", h, e.missing, e.observed)>>
    \o (IF h = "json_invalid"
        THEN <<MsgText(IF s = "ez" THEN "print" ELSE "info", "body_head",
                       RawText(upstream.body))>>
        ELSE <<>>)

Handle ==
    /\ pc = "except"
    /\ LET m == Matching(script, exc)
       IN  IF m = <<>>
           THEN /\ pc' = "abort"
                /\ UNCHANGED <<diag, result>>
           ELSE /\ pc' = "return"
                /\ diag' = diag \o HandlerMsgs(script, m[1].handler, exc)
                /\ result' = IF script \in {"ez", "cli"} THEN NoneResult ELSE EmptyResult
    /\ UNCHANGED <<script, upstream, df, exc, branch, stations>>
    /\ UNCHANGED <<now, cache, fetches, markers, call, ret>>

\* ------------------------------------------------- helpers of the main script

\* GetMarkerColorElif with the second test written sbi < 3.
GetMarkerColorBelow3(v) ==
    IF v.t = "num" /\ v.n = 0 THEN "red"
    ELSE IF v.t = "num" /\ v.n < 3 THEN "orange"
    ELSE "green"

\* get_marker_color of bike0920 and bike2 (if / elif / else).  Every
\* comparison with NaN is false, so NaN falls through to the else.
GetMarkerColorElif(v) ==
    IF v.t = "num" /\ v.n = 0 THEN "red"
    ELSE IF v.t = "num" /\ v.n <= 3 THEN "orange"
    ELSE "green"

\* get_marker_color of tw (two guarded returns and a last return).
GetMarkerColorReturns(v) ==
    CASE v.t = "num" /\ v.n = 0 -> "red"
      [] v.t = "num" /\ v.n # 0 /\ v.n <= 3 -> "orange"
      [] OTHER -> "green"

GetMarkerColor(s, v) ==
    IF s = "tw" THEN GetMarkerColorReturns(v) ELSE GetMarkerColorElif(v)

\* Earth radius in km.
R == 6371

\* Angles are counted in half degrees (pi / 360), so that the halves the
\* formula takes of a whole number of degrees are whole: math.radians.
Radians(deg) == 2 * deg

Half(x) == x \div 2

\* math.sin in thousandths, by Bhaskara's rational approximation on the
\* half turn, odd and periodic as the library function is.
Sin(x) ==
    LET v == x % 720
        w == IF v <= 360 THEN v ELSE v - 360
        b == (4000 * w * (360 - w)) \div (162000 - w * (360 - w))
    IN  IF v <= 360 THEN b ELSE 0 - b

\* math.cos in thousandths.
Cos(x) == Sin(x + 180)

\* The product of two numbers in thousandths, rounded toward zero
\* whatever the signs, as the floating product rounds alike for x and -x.
Mul(x, y) ==
    LET p == x * y
    IN  IF p >= 0 THEN p \div 1000 ELSE 0 - ((0 - p) \div 1000)

\* The greatest r in lo..hi with r * r <= n, by bisection.
RECURSIVE RootIn(_, _, _)
RootIn(n, lo, hi) ==
    IF lo = hi THEN lo
    ELSE LET mid == (lo + hi + 1) \div 2
         IN  IF mid * mid <= n THEN RootIn(n, mid, hi) ELSE RootIn(n, lo, mid - 1)

\* math.sqrt, argument and result in thousandths.
Sqrt(a) == RootIn(1000 * a, 0, 1000)

\* The greatest angle u in lo..hi whose tangent is at most y / x, by
\* bisection.
RECURSIVE AngleIn(_, _, _, _)
AngleIn(y, x, lo, hi) ==
    IF lo = hi THEN lo
    ELSE LET mid == (lo + hi + 1) \div 2
         IN  IF Sin(mid) * x <= Cos(mid) * y THEN AngleIn(y, x, mid, hi)
             ELSE AngleIn(y, x, lo, mid - 1)

\* math.atan2(y, x) for y, x >= 0: the angle of the first quadrant, to the
\* half degree below.
Atan2(y, x) == AngleIn(y, x, 0, 180)

\* Haversine with the latitude of the first point used for both cosines.
HaversineLat1Only(lat1, lon1, lat2, lon2) ==
    LET dLat == Radians(lat2 - lat1)
        dLon == Radians(lon2 - lon1)
        a == Mul(Sin(Half(dLat)), Sin(Half(dLat)))
             + Mul(Mul(Mul(Cos(Radians(lat1)), Cos(Radians(lat1))),
                       Sin(Half(dLon))), Sin(Half(dLon)))
        c == 2 * Atan2(Sqrt(a), Sqrt(1000 - a))
    IN  (R * c * 355) \div (113 * 360)

\* haversine: the distance in whole km (a in thousandths, c in half
\* degrees, pi as 355 / 113).
Haversine(lat1, lon1, lat2, lon2) ==
    LET dLat == Radians(lat2 - lat1)
        dLon == Radians(lon2 - lon1)
        a == Mul(Sin(Half(dLat)), Sin(Half(dLat)))
             + Mul(Mul(Mul(Cos(Radians(lat1)), Cos(Radians(lat2))),
                       Sin(Half(dLon))), Sin(Half(dLon)))
        c == 2 * Atan2(Sqrt(a), Sqrt(1000 - a))
    IN  (R * c * 355) \div (113 * 360)

\* --------------------------------------------------- cache and main script

\* The scripts whose fetch function is wrapped in st.cache_data(ttl=60).
Cached == {"bike0920", "bike2", "tw"}

\* ttl of st.cache_data, in seconds.
TTL == 60

\* The wrapper of st.cache_data after the function has returned: the value
\* returned is stored with the time and with the messages the function
\* showed, whatever the value is.  An exception that leaves the function
\* stores nothing.
Memoize ==
    /\ pc = "return"
    /\ script \in Cached
    /\ cache' = [has |-> TRUE, at |-> now, value |-> result, shown |-> diag]
    /\ pc' = "display"
    /\ UNCHANGED <<script, upstream, df, exc, diag, result, branch, stations>>
    /\ UNCHANGED <<now, fetches, markers, call, ret>>

\* The position the sidebar inputs give, to the degree.
User == [lat |-> 24, lon |-> 121]

\* The district the pages show ('北區').
NorthArea == Str(<<"N">>)

\* The rows the page works on: bike0920 and bike2 keep the district; tw
\* preselects it when the feed has it and shows every row otherwise.
Shown(s, rows) ==
    LET north == SelectSeq(rows, LAMBDA row : row.cells["sarea"] = NorthArea)
    IN  IF s = "tw" /\ north = <<>> THEN rows ELSE north

Distance(row) == Haversine(User.lat, User.lon, row.cells["lat"].n, row.cells["lng"].n)

\* The first row at the least distance among rows[i..], given the best row
\* before i and its distance.
RECURSIVE ClosestFrom(_, _, _, _)
ClosestFrom(rows, i, best, least) ==
    IF i > Len(rows) THEN best
    ELSE LET d == Distance(rows[i])
         IN  IF d < least THEN ClosestFrom(rows, i + 1, rows[i], d)
             ELSE ClosestFrom(rows, i + 1, best, least)

\* df.loc[df['distance'].idxmin()]: the first row at the least distance.
Closest(rows) == ClosestFrom(rows, 2, rows[1], Distance(rows[1]))

Marker(row, s) ==
    [idx |-> row.idx, sbi |-> row.cells["sbi"],
     color |-> GetMarkerColor(s, row.cells["sbi"])]

\* The marker loop from row i on: the popup text is formatted left to
\* right, int() of a NaN raises ValueError there, and the icon asks for the
\* colour once more.
RECURSIVE MarkerLoop(_, _, _, _)
MarkerLoop(s, rows, i, acc) ==
    IF i > Len(rows) THEN [to |-> "done", markers |-> acc]
    ELSE LET c == rows[i].cells
             m == Marker(rows[i], s)
         IN  IF s # "tw" /\ IsNull(c["tot"]) THEN [to |-> "crash", markers |-> acc]
             ELSE IF IsNull(c["sbi"]) \/ IsNull(c["bemp"])
             THEN [to |-> "crash", markers |-> Append(acc, m)]
             ELSE MarkerLoop(s, rows, i + 1, acc \o <<m, m>>)

\* The page below df_all = get_ubike_data(): the district filter, the
\* nearest station in the sidebar, the time of the last update, the
\* totals and the marker loop.
Page(s, f) ==
    LET rows == Shown(s, f.rows)
        closest == Closest(rows)
    IN  IF IsEmpty(f) \/ rows = <<>> THEN [to |-> "done", markers |-> <<>>]
        ELSE IF \E c \in {"sbi", "bemp"} : IsNull(closest.cells[c])
        THEN [to |-> "crash", markers |-> <<>>]
        ELSE IF s = "bike2" /\ \A i \in 1..Len(rows) : IsNull(rows[i].cells["mday"])
        THEN [to |-> "crash", markers |-> <<>>]
        ELSE MarkerLoop(s, rows, 1, <<>>)

Display ==
    /\ pc \in {"display", "served"}
    /\ LET o == Page(script, result.df)
       IN  /\ pc' = o.to
           /\ markers' = o.markers
    /\ UNCHANGED <<script, upstream, df, exc, diag, result, branch, stations>>
    /\ UNCHANGED <<now, cache, fetches, call, ret>>

\* The longest time a session is followed.
MaxTime == 120

\* The waits between two runs of the script: half the ttl, one second less
\* than the ttl, the ttl.
Waits == {TTL \div 2, TTL - 1, TTL}

\* What upstream does in a session that is followed over several runs.
CacheAnswers ==
    {Answer("ok", 200, JsonCType, Body("retval_list", L)) :
        L \in {<<Base>>, <<With(Base, "sbi", Str(<<"0">>))>>, <<Without(Base, "ar")>>, <<>>}}
    \cup {Answer("ok", 200, JsonCType, Body("html", <<>>)),
          Answer("ok", 500, JsonCType, Body("empty", <<>>)),
          Answer("connection_error", 200, JsonCType, Body("empty", <<>>))}

\* Fresh with the entry still served when its age is the ttl.
FreshInclusive(c, t) == c.has /\ t <= c.at + TTL

\* The entry c is served at time t: the cache drops an entry once the
\* clock is no longer below the time it was stored plus the ttl.
Fresh(c, t) == c.has /\ t < c.at + TTL

\* The script is rerun w seconds after a run ended and calls
\* get_ubike_data again: an entry that is fresh is returned, with the
\* messages stored with it, and the function body does not run; otherwise
\* the body runs, against whatever upstream does this time.
Rerun ==
    /\ pc \in {"done", "crash", "abort"}
    /\ script \in Cached
    /\ \E w \in Waits :
          /\ now + w <= MaxTime
          /\ now' = now + w
    /\ IF Fresh(cache, now')
       THEN /\ pc' = "served"
            /\ result' = cache.value
            /\ diag' = cache.shown
            /\ UNCHANGED upstream
       ELSE /\ pc' = "request"
            /\ result' = Unset
            /\ diag' = <<>>
            /\ upstream' \in CacheAnswers
    /\ df' = NoFrame
    /\ exc' = NoExc
    /\ branch' = NoBranch
    /\ stations' = NoStations
    /\ fetches' = 0
    /\ markers' = <<>>
    /\ UNCHANGED <<script, cache, call, ret>>

Next ==
    \/ Request
    \/ Decode0920
    \/ DecodeBike2
    \/ DecodeTw
    \/ DecodeCli
    \/ Validate
    \/ ValidateBike2
    \/ Clean
    \/ Handle
    \/ Memoize
    \/ Display

Spec == Init /\ [][Next]_vars

\* One invocation of each fetch function against an upstream that answers
\* in one of a few ways or never answers.
FairInit ==
    /\ script \in Scripts
    /\ upstream \in CacheAnswers \cup {Answer("silent", 200, JsonCType, Body("empty", <<>>))}
    /\ pc = "request"
    /\ FreshLocals
    /\ now = 0
    /\ cache = NoCache
    /\ call = NoCall
    /\ ret = NoRet

\* Each step of a run is taken once it can be: the interpreter goes on
\* with the next statement.
FairSpec == FairInit /\ [][Next]_vars /\ WF_vars(Next)

\* A session of one of the cached pages, followed over its reruns.
CacheInit ==
    /\ script \in Cached
    /\ upstream \in CacheAnswers
    /\ pc = "request"
    /\ FreshLocals
    /\ now = 0
    /\ cache = NoCache
    /\ call = NoCall
    /\ ret = NoRet

CacheNext ==
    \/ Request
    \/ Decode0920
    \/ DecodeBike2
    \/ DecodeTw
    \/ Validate
    \/ ValidateBike2
    \/ Clean
    \/ Handle
    \/ Memoize
    \/ Display
    \/ Rerun

CacheSpec == CacheInit /\ [][CacheNext]_vars

\* The greatest number of bikes a call of get_marker_color is tried with.
MaxSbi == 50

Lats == {-60, 0, 24, 25, 60}

Lons == {-60, 0, 90, 120, 121}

\* The calls of the helper functions that are tried.
Calls ==
    {[fn |-> "get_marker_color", args |-> <<Num(n)>>] : n \in 0..MaxSbi}
    \cup {[fn |-> "haversine", args |-> <<lat1, lon1, lat2, lon2>>] :
             lat1 \in Lats, lon1 \in Lons, lat2 \in Lats, lon2 \in Lons}

\* One call of a helper function of one of the pages.
CallInit ==
    /\ script \in Cached
    /\ call \in Calls
    /\ ret = NoRet
    /\ pc = "call"
    /\ upstream = Answer("ok", 200, JsonCType, Body("flat", <<>>))
    /\ FreshLocals
    /\ now = 0
    /\ cache = NoCache

GetMarkerColorCall ==
    /\ pc = "call"
    /\ call.fn = "get_marker_color"
    /\ ret' = [fn |-> call.fn, value |-> <<GetMarkerColor(script, call.args[1])>>]
    /\ pc' = "called"
    /\ UNCHANGED <<script, upstream, df, exc, diag, result, branch, stations>>
    /\ UNCHANGED <<now, cache, fetches, markers, call>>

HaversineCall ==
    /\ pc = "call"
    /\ call.fn = "haversine"
    /\ ret' = [fn |-> call.fn,
               value |-> <<Haversine(call.args[1], call.args[2], call.args[3], call.args[4])>>]
    /\ pc' = "called"
    /\ UNCHANGED <<script, upstream, df, exc, diag, result, branch, stations>>
    /\ UNCHANGED <<now, cache, fetches, markers, call>>

CallNext ==
    \/ GetMarkerColorCall
    \/ HaversineCall

CallSpec == CallInit /\ [][CallNext]_vars

\* ================================================================ claims

Streamlit == {"bike0920", "bike2", "tw"}

\* The keys the decoded station objects carry, and the required fields
\* that none of them carries.
StationKeys == UNION {DOMAIN stations.recs[i] : i \in 1..Len(stations.recs)}

MissingFields == RequiredCols \ StationKeys

\* The messages shown name the missing fields and the fields observed.
NamesBoth ==
    /\ \E i \in 1..Len(diag) :
          diag[i].msg \in {"missing_cols", "parse_failed"} /\ diag[i].missing = MissingFields
    /\ \E j \in 1..Len(diag) :
          diag[j].msg \in {"actual_cols", "parse_failed"} /\ diag[j].observed = StationKeys

Rows == result.df.rows

\* C2: every record of the table get_ubike_data returns has a non-null
\* lat, a non-null lng and a non-null sna.
C2_NonNullGeometry ==
    (pc = "return" /\ script \in Streamlit)
    => \A i \in 1..Len(Rows) :
          \A c \in {"lat", "lng", "sna"} :
             c \in DOMAIN Rows[i].cells /\ ~IsNull(Rows[i].cells[c])

\* The value of field c of station object r, null when r lacks the key.
Field(r, c) == IF c \in DOMAIN r THEN r[c] ELSE Null

\* The value is a number or a string that reads as one.
IsNumeric(v) == v.t = "num" \/ (v.t = "str" /\ v.s # <<>> /\ AllDigits(v.s))

NumericValue(v) == IF v.t = "num" THEN v.n ELSE DigitsToInt(v.s)

\* A feed with a record of null sna and a record of non-numeric lat came
\* back as a non-empty table.
C2_Witness ==
    /\ pc = "return" /\ script \in Streamlit /\ stations.got
    /\ \E i \in 1..Len(stations.recs) : MissingFields = {} /\ IsNull(Field(stations.recs[i], "sna"))
    /\ Len(Rows) = 1

\* The station objects passed the validation and went through the
\* cleaning block.
Cleaned == pc = "return" /\ stations.got /\ MissingFields = {}

\* The rows of the table that carry index label i.
RowsOf(i) == {k \in 1..Len(Rows) : Rows[k].idx = i}

\* C3: in bike0920 a record whose lat or lng is non-numeric is dropped; a
\* record with numeric lat and lng and a name whose sbi, bemp or tot is
\* non-numeric is retained with exactly those fields null, its other
\* numeric fields at their value and its string fields as they came; no
\* error or warning is raised for the feed.
C3_AsymmetricCoercion ==
    (Cleaned /\ script = "bike0920")
    => /\ result.kind = "frame"
       /\ \A m \in 1..Len(diag) : diag[m].level = "success"
       /\ \A i \in 1..Len(stations.recs) :
             LET r == stations.recs[i]
             IN  /\ (~IsNumeric(Field(r, "lat")) \/ ~IsNumeric(Field(r, "lng"))) => RowsOf(i) = {}
                 /\ (IsNumeric(Field(r, "lat")) /\ IsNumeric(Field(r, "lng")) /\ ~IsNull(Field(r, "sna")))
                    => \E k \in RowsOf(i) :
                          /\ RowsOf(i) = {k}
                          /\ \A c \in NumericCols :
                                Rows[k].cells[c] =
                                   IF IsNumeric(Field(r, c)) THEN Num(NumericValue(Field(r, c))) ELSE Null
                          /\ \A c \in {"sna", "sarea", "ar"} : Rows[k].cells[c] = Field(r, c)

\* A feed with one record of non-numeric lat and one of non-numeric sbi:
\* the first is gone, the second is there with sbi null.
C3_Witness ==
    /\ Cleaned /\ script = "bike0920" /\ Len(stations.recs) = 2
    /\ ~IsNumeric(Field(stations.recs[1], "lat"))
    /\ ~IsNumeric(Field(stations.recs[2], "sbi"))
    /\ Len(Rows) = 1 /\ Rows[1].idx = 2 /\ IsNull(Rows[1].cells["sbi"])
    /\ Rows[1].cells["tot"] = Num(9)

\* The answer is a 200 whose body is a flat JSON array that the script
\* reads as JSON.
FlatInput ==
    /\ upstream.net = "ok" /\ upstream.status = 200
    /\ upstream.body.kind = "flat"
    /\ script = "bike0920" => upstream.ctype = JsonCType

Input == upstream.body.recs

Ended == pc \in {"return", "abort"}

\* One record per input object, each numeric field at the numeric value of
\* the input field (null when the input field has none).
OnePerObject ==
    /\ Len(Rows) = Len(Input)
    /\ \A i \in 1..Len(Rows) :
          /\ Rows[i].idx = i
          /\ \A c \in NumericCols :
                Rows[i].cells[c] =
                   IF IsNumeric(Field(Input[i], c))
                   THEN Num(NumericValue(Field(Input[i], c)))
                   ELSE Null

\* C4 as stated: for a flat JSON array in which every object carries all
\* nine required fields the normalizer emits one record per input object.
C4_AsStated ==
    (Ended /\ script \in {"bike0920", "bike2"} /\ FlatInput
        /\ \A i \in 1..Len(Input) : RequiredCols \subseteq DOMAIN Input[i])
    => Len(Rows) = Len(Input)

\* C4, amended: for a flat JSON array in which every object carries all
\* nine required fields with a numeric lat, a numeric lng and a non-null
\* sna (and, for bike2, no retVal key), the normalizer emits one record per
\* input object, each numeric field at the numeric value of the input
\* field, or null when the input field is not numeric.
C4_OnePerValidObject ==
    (Ended /\ script \in {"bike0920", "bike2"} /\ FlatInput
        /\ \A i \in 1..Len(Input) :
              /\ RequiredCols \subseteq DOMAIN Input[i]
              /\ IsNumeric(Input[i]["lat"]) /\ IsNumeric(Input[i]["lng"])
              /\ ~IsNull(Input[i]["sna"])
              /\ script = "bike2" => "retVal" \notin DOMAIN Input[i])
    => OnePerObject

\* A flat array of two valid objects, one of them with a non-numeric sbi,
\* came back as two records.
C4_Witness ==
    /\ pc = "return" /\ script \in {"bike0920", "bike2"} /\ FlatInput
    /\ Len(Input) = 2 /\ ~IsNumeric(Field(Input[2], "sbi"))
    /\ OnePerObject

\* An error or a warning was shown.
Failed == \E m \in 1..Len(diag) : diag[m].level \in {"error", "warning"}

\* What the run of script s comes to when upstream answers with the flat
\* JSON array of L: the table returned and whether an error or a warning
\* is shown.
FlatRun(s, L) ==
    LET a == Answer("ok", 200, JsonCType, Body("flat", L))
        o == IF s = "bike0920" THEN Unwrap0920(a) ELSE UnwrapBike2(a.body)
        v == IF s = "bike0920" THEN CheckCols(s, o.df) ELSE CheckColsBike2(o.df)
    IN  IF o.to = "validate" /\ v.to = "clean"
        THEN [result |-> [kind |-> "frame", df |-> CleanFrame(v.df)], failed |-> FALSE]
        ELSE [result |-> EmptyResult, failed |-> TRUE]

\* The answer is a 200 whose JSON body is {"retVal": s}, s the JSON text
\* of a station list.
StringEnvelope ==
    /\ upstream.net = "ok" /\ upstream.status = 200
    /\ upstream.body.kind = "retval_str"
    /\ script = "bike0920" => upstream.ctype = JsonCType

\* C5: the envelope {"retVal": s}, s the JSON text of a station list L,
\* gives the same table and the same success or failure as the flat JSON
\* array of L.
C5_EnvelopeRoundTrip ==
    (Ended /\ script \in {"bike0920", "bike2"} /\ StringEnvelope)
    => /\ result = FlatRun(script, Input).result
       /\ Failed = FlatRun(script, Input).failed

\* The answer is a 200 whose body is CSV text with one retVal cell that
\* holds the JSON text of a station list, its quotes doubled.
CsvEnvelope ==
    /\ upstream.net = "ok" /\ upstream.status = 200
    /\ upstream.body.kind = "csv_retval"
    /\ upstream.ctype = CsvCType

\* C6: a CSV answer whose retVal cell holds the JSON text of L with its
\* quotes doubled gives the same records as the flat JSON array of L, for
\* every L, lists with empty string fields included.
C6_CsvWrappedEquivalence ==
    (Ended /\ script = "bike0920" /\ CsvEnvelope)
    => result = FlatRun(script, Input).result

\* bike0920 got a 200 and is past its decoding block.
Decoded0920 ==
    /\ script = "bike0920" /\ pc \notin {"request", "decode"}
    /\ upstream.net = "ok" /\ upstream.status = 200

\* The envelope keys of a body that is a JSON object.
EnvelopeKeys(b) ==
    CASE b.kind \in {"retval_str", "retval_garbled", "retval_list", "retval_dict"} -> {"retVal"}
      [] b.kind = "records" -> {"records"}
      [] b.kind = "retval_and_records" -> {"retVal", "records"}
      [] OTHER -> {}

\* C7: in bike0920 an answer whose content type contains application/json
\* is decoded as JSON only and any other answer as CSV only; of a JSON
\* object the retVal key is taken before the records key, and the body
\* itself is the station list only when it has neither; a branch that
\* fails is not followed by another.
C7_ShapeDetection ==
    Decoded0920
    => LET b == upstream.body
           json == \E i \in 1..Len(upstream.ctype) : upstream.ctype[i] = "application/json"
       IN  /\ branch.path = IF json THEN "json" ELSE "csv"
           /\ (json /\ b.kind \in JsonKinds \ {"scalar", "null"})
              => branch.key = IF "retVal" \in EnvelopeKeys(b) THEN "retVal"
                              ELSE IF "records" \in EnvelopeKeys(b) THEN "records"
                              ELSE "direct"
           /\ (json /\ b.kind \in {"retval_list", "retval_and_records", "flat"})
              => stations = [got |-> TRUE, recs |-> b.recs]
           /\ (json /\ b.kind \in TextKinds \cup {"retval_garbled", "retval_dict"})
              => ~stations.got /\ (pc = "return" => result = EmptyResult)
           /\ (~json /\ b.kind \in JsonKinds)
              => ~stations.got /\ (pc = "return" => result = EmptyResult)

\* A JSON object with both keys came in with a content type that carries a
\* charset parameter, and the list under retVal was the one used.
C7_Witness ==
    /\ Decoded0920 /\ pc = "return"
    /\ upstream.ctype = JsonCType /\ upstream.body.kind = "retval_and_records"
    /\ branch = Branch("json", "retVal")
    /\ stations.got /\ stations.recs = Input /\ Input # OtherRecords
    /\ Len(Rows) = 2

\* The answer is a 200 whose JSON body is {"retVal": {...}}, the values of
\* the dict being the objects of Input.
DictEnvelope ==
    /\ upstream.net = "ok" /\ upstream.status = 200
    /\ upstream.body.kind = "retval_dict"
    /\ script = "bike0920" => upstream.ctype = JsonCType

\* Every object of the input has the nine fields, a numeric lat and lng
\* and a name.
AllUsable ==
    \A i \in 1..Len(Input) :
       /\ RequiredCols \subseteq DOMAIN Input[i]
       /\ IsNumeric(Input[i]["lat"]) /\ IsNumeric(Input[i]["lng"])
       /\ ~IsNull(Input[i]["sna"])

NoUsableAnswer ==
    \/ upstream.net # "ok"
    \/ upstream.status >= 400
    \/ upstream.body.kind \in {"html", "empty", "retval_garbled"}

\* C9: no exception leaves the fetch function, and a run that got no
\* usable answer returns an empty result with a diagnostic.
C9_NonFatal ==
    /\ pc # "abort"
    /\ (pc = "return" /\ NoUsableAnswer)
       => /\ result.df = NoFrame
          /\ \E m \in 1..Len(diag) : diag[m].level # "success"

\* The answer is a 200 whose body is not JSON.
NotJsonBody ==
    /\ upstream.net = "ok" /\ upstream.status = 200
    /\ upstream.body.kind \notin JsonKinds

\* C10: in tw and ez a 200 whose body is not JSON is reported by the JSON
\* handler, with the head of the body, and never by the handler of request
\* failures.
C10_FailureClassification ==
    (pc = "return" /\ script \in {"tw", "ez"} /\ NotJsonBody)
    => /\ \E m \in 1..Len(diag) : diag[m].msg = "json_invalid"
       /\ \E m \in 1..Len(diag) :
             diag[m].msg = "body_head" /\ diag[m].text = RawText(upstream.body)
       /\ \A m \in 1..Len(diag) : diag[m].msg # "request_failed"

\* C11: the cache only ever holds the table of a successful parse, and an
\* invocation served from the cache never gets the empty result of a
\* failed fetch.
C11_OnlySuccessMemoized ==
    /\ cache.has
       => /\ cache.value # EmptyResult
          /\ \A m \in 1..Len(cache.shown) : cache.shown[m].level \notin {"error", "warning"}
    /\ pc = "served" => result # EmptyResult

\* The invocation of get_ubike_data is under way or has just come back:
\* the cache is as the invocation found it.
InCall == pc \in {"served", "request", "decode", "validate", "clean", "except", "return"}

\* C12: with the table of a successful fetch stored at time t, an
\* invocation before t + 60 returns the stored table and issues no HTTP
\* request; an invocation at t + 60 or later is not served from the cache,
\* issues exactly one HTTP request and returns the table built from what
\* upstream answered this time.
C12_FreshnessWindow ==
    (InCall /\ cache.has /\ cache.value # EmptyResult)
    => /\ now < cache.at + 60
          => pc = "served" /\ result = cache.value /\ fetches = 0
       /\ now >= cache.at + 60
          => /\ pc # "served"
             /\ fetches = IF pc = "request" THEN 0 ELSE 1
             /\ (pc = "return" /\ upstream.net = "ok" /\ upstream.status = 200
                    /\ upstream.body.kind = "retval_list" /\ Input # <<>> /\ AllUsable)
                => OnePerObject

\* Sixty seconds to the second after a table was stored, the invocation
\* fetched once and came back with another table.
C12_Witness ==
    /\ pc = "return" /\ cache.has /\ cache.value # EmptyResult
    /\ now = cache.at + 60
    /\ fetches = 1
    /\ result # EmptyResult /\ result # cache.value
    /\ OnePerObject

\* The helper fn has been called and has returned.
Called(fn) == pc = "called" /\ call.fn = fn

\* C13: get_marker_color returns red exactly for 0, orange exactly for 1,
\* 2 and 3 and green exactly for every integer from 4 on, and the variants
\* of the scripts return the same for every input.
C13_Classification ==
    Called("get_marker_color")
    => LET n == call.args[1].n
       IN  /\ ret.value[1] = IF n = 0 THEN "red"
                             ELSE IF n \in {1, 2, 3} THEN "orange"
                             ELSE "green"
           /\ \A s \in Cached : GetMarkerColor(s, call.args[1]) = ret.value[1]

\* The variant of tw was called with 3 and returned orange.
C13_Witness ==
    /\ Called("get_marker_color") /\ script = "tw"
    /\ call.args[1] = Num(3)
    /\ ret.value[1] = "orange"

\* C14: haversine(a, b) equals haversine(b, a) for every pair of points,
\* and is 0 when a and b are the same point.
C14_Symmetric ==
    Called("haversine")
    => LET a == call.args
       IN  /\ ret.value[1] = Haversine(a[3], a[4], a[1], a[2])
           /\ (a[1] = a[3] /\ a[2] = a[4]) => ret.value[1] = 0

\* The distance between two points of different latitude and longitude
\* was computed, and is not 0.
C14_Witness ==
    /\ Called("haversine")
    /\ call.args = <<0, 0, 60, 121>>
    /\ ret.value[1] > 0
    /\ ret.value[1] = Haversine(60, 121, 0, 0)

\* C15: when the source records carry a station identifier (sno), no two
\* records of the table returned have the same identifier, also for a feed
\* that repeats a station.
C15_UniqueStationId ==
    (pc = "return" /\ script \in Streamlit /\ "sno" \in result.df.cols)
    => \A i, j \in 1..Len(Rows) :
          (i # j /\ ~IsNull(Rows[i].cells["sno"]) /\ ~IsNull(Rows[j].cells["sno"]))
          => Rows[i].cells["sno"] # Rows[j].cells["sno"]

\* Every row of the table returned has its three counts.
CountsThere ==
    \A k \in 1..Len(Rows) : \A c \in {"tot", "sbi", "bemp"} : ~IsNull(Rows[k].cells[c])

\* C16: a record whose mday is not of the form YYYYMMDDHHMMSS is kept,
\* with a null mday, and a feed whose kept records have null mday (some or
\* all of them) and nothing else missing goes through the page without an
\* error being raised.
C16_MdayHealed ==
    /\ (Cleaned /\ script \in Streamlit)
       => \A i \in 1..Len(stations.recs) :
             LET r == stations.recs[i]
             IN  (IsNumeric(Field(r, "lat")) /\ IsNumeric(Field(r, "lng"))
                     /\ ~IsNull(Field(r, "sna")))
                 => \E k \in RowsOf(i) :
                       Rows[k].cells["mday"] =
                          IF Field(r, "mday") = Str(ValidMday) THEN Dt(ValidMday) ELSE Null
    /\ (pc \in {"done", "crash"} /\ CountsThere) => pc = "done"

\* C17: every invocation of a fetch function comes to its end, and an
\* upstream that never answers ends in the outcome of a failed request:
\* an empty result and the message of the request handler.
C17_EventuallyReturns ==
    /\ <>(pc \in {"return", "abort"})
    /\ [](upstream.net = "silent"
          => <>(/\ pc = "return"
                /\ result.df = NoFrame
                /\ \E m \in 1..Len(diag) : diag[m].msg = "request_failed"))

\* C18: get_marker_color returns green for a record of the table only
\* when its sbi is a number of at least 4; a record kept with a null sbi
\* is never given green.
C18_GreenOnlyIfEnough ==
    \A m \in 1..Len(markers) :
       markers[m].color = "green" => markers[m].sbi.t = "num" /\ markers[m].sbi.n >= 4

====
